---- MODULE Spec2Model ----
(***************************************************************************)
(* NanoBanana PRO (Obsidian plugin): the three commands of main.ts         *)
(* (generatePoster, generatePromptOnly, regenerateLastPoster), the retry   *)
(* controller executeWithRetry and the ProgressModal, as a state machine.  *)
(* Every command invocation is an async function: it runs atomically       *)
(* between two awaits and may interleave with other invocations at every   *)
(* await (vault read, modal, provider call, backoff sleep, file write).    *)
(***************************************************************************)
EXTENDS Integers, Sequences, FiniteSets, TLC

VARIABLES
  isGenerating,   \* main.ts:19  NanoBananaPlugin.isGenerating
  lastPrompt,     \* main.ts:17  NanoBananaPlugin.lastPrompt
  lastNoteFile,   \* main.ts:18  NanoBananaPlugin.lastNoteFile
  settings,       \* main.ts:13  NanoBananaPlugin.settings
  notes,          \* the vault: for every note, whether it exists and its embeds
  attachments,    \* the vault: the number of image files saveImage has written
  proc            \* one record per command invocation (its locals and position)

vars == <<isGenerating, lastPrompt, lastNoteFile, settings, notes, attachments, proc>>

-----------------------------------------------------------------------------
(* Bounds of the model *)

\* largest settings.autoRetryCount explored
MaxRetry == 2
\* largest number of regenerate decisions the user takes at the preview in one session
MaxRegen == 1
\* largest number of embeds a note receives
MaxEmbeds == 1
\* number of distinct prompt texts the provider may return for one note
NumVariants == 2
\* largest number of image files written to the vault
MaxAttachments == 2
\* largest autoRetryCount of the configurations in which the backoff is measured
MaxBackoffRetry == 3

\* two command invocations may be alive at once
Procs == {"p1", "p2"}
Notes == {"noteA", "noteB"}
NULL == "null"

-----------------------------------------------------------------------------
(* Values *)

\* a prompt text derived from a note; v distinguishes the provider's answers
Prompts == [note : Notes, v : 1..NumVariants]
EmptyPrompt == [note |-> "", v |-> 0]

\* the text the image client is given: the generated prompt, the configured
\* prefix put before it (main.ts:150-152), and whether the user edited it
NoFinalPrompt == [base |-> EmptyPrompt, prefix |-> "", edited |-> FALSE]

\* what vault.read returns: the note's own text (the user may edit it any time)
NoteTexts == {"", "  ", "text"}

\* String.prototype.trim on the texts above
Trim(s) == IF s = "  " THEN "" ELSE s

\* thrown values: typed errors (GenerationErrorClass), a plain Error, a thrown string
\* (typed: instanceof GenerationErrorClass; isError: instanceof Error;
\* wrapped: built by executeWithRetry out of a thrown value that is no Error)
\* message: error.message of an Error, String(error) of any other thrown value;
\* details: GenerationErrorClass.details, an optional string
Undefined == "undefined"
Err(typed, type, retryable, isError) ==
  [typed |-> typed, type |-> type, retryable |-> retryable, isError |-> isError,
   wrapped |-> FALSE, message |-> "", details |-> Undefined]
NoError == Err(FALSE, "none", FALSE, FALSE)
WithText(e, message, details) == [e EXCEPT !.message = message, !.details = details]
\* GenerationErrorClass (types.ts) is a subclass of Error
GenerationErrorClass(type, retryable) == Err(TRUE, type, retryable, TRUE)
\* the kinds of GenerationError (spec, section 7)
ErrorKinds ==
  {"INVALID_API_KEY", "RATE_LIMIT", "NETWORK_ERROR", "GENERATION_FAILED",
   "CONTENT_FILTERED", "NO_CONTENT"}
TypedErrors ==
  { WithText(GenerationErrorClass("RATE_LIMIT", TRUE), "Too many requests", "429"),
    WithText(GenerationErrorClass("NETWORK_ERROR", TRUE), "Network error", Undefined),
    WithText(GenerationErrorClass("INVALID_API_KEY", FALSE), "Invalid API key", "401") }
PlainError == WithText(Err(FALSE, "Error", FALSE, TRUE), "write failed", Undefined)
ThrownString == WithText(Err(FALSE, "string", FALSE, FALSE), "boom", Undefined)
ProviderErrors == TypedErrors \cup {PlainError, ThrownString}
\* the storage writer fails with an untyped Error
StorageErrors == {PlainError}

-----------------------------------------------------------------------------
(* ProgressModal (progressModal.ts) *)

\* ProgressModal.steps, progressModal.ts:22-28
Steps == <<"analyzing", "generating-prompt", "generating-image", "saving", "embedding">>

\* Array.prototype.findIndex over ProgressModal.steps: 0-based, -1 when absent
StepIndex(step) ==
  IF \E i \in 1..Len(Steps) : Steps[i] = step
  THEN (CHOOSE i \in 1..Len(Steps) : Steps[i] = step) - 1
  ELSE -1

\* the step markers updateProgress paints for a step index, progressModal.ts:96-115
Marks(stepIndex) ==
  [i \in 1..Len(Steps) |->
     IF i - 1 < stepIndex THEN "completed"
     ELSE IF i - 1 = stepIndex THEN "active"
     ELSE "pending"]

NoModal ==
  [exists |-> FALSE, isCancelled |-> FALSE, open |-> FALSE, content |-> "none",
   progress |-> 0, marks |-> Marks(-1)]

\* new ProgressModal(...) followed by open(): onOpen renders "0%" and all steps pending
NewProgressModal ==
  [exists |-> TRUE, isCancelled |-> FALSE, open |-> TRUE, content |-> "progress",
   progress |-> 0, marks |-> Marks(-1)]

ModalUpdateProgressNoGuard(m, state) ==
  [m EXCEPT !.progress = state.progress, !.marks = Marks(StepIndex(state.step))]

\* ProgressModal.updateProgress, progressModal.ts:85-116
ModalUpdateProgress(m, state) ==
  IF m.isCancelled THEN m
  ELSE [m EXCEPT !.progress = state.progress, !.marks = Marks(StepIndex(state.step))]

\* ProgressModal.showError / showSuccess: the content is replaced (the cancel
\* button goes with it)
ModalShowError(m) == [m EXCEPT !.content = "error"]
ModalShowSuccess(m) == [m EXCEPT !.content = "success"]

\* Modal.close()
ModalClose(m) == [m EXCEPT !.open = FALSE]

State(step, progress) == [step |-> step, progress |-> progress]

-----------------------------------------------------------------------------
(* QuickOptionsModal (quickOptionsModal.ts) and the panel count *)

\* the styles explored, two of the six of the style dropdown, quickOptionsModal.ts:57-64
ImageStyles == {"infographic", "cartoon"}

\* the options of the panel-cuts dropdown, quickOptionsModal.ts:150-155
CartoonCutsChoices == {"4", "6", "8", "custom"}

\* texts the user types into the custom panel-count field
TypedTexts == {"", "abc", "-3", "0", "1", "7", "15"}

\* values of customCartoonCuts that the stored settings (data.json, merged over the
\* defaults without validation, main.ts:58-60) may hold
StoredCustomCuts == {1, 4, 15}

\* parseInt on the texts above and on the dropdown values; nan stands for NaN
ParseInt(s) ==
  CASE s = "-3" -> [nan |-> FALSE, n |-> -3]
    [] s = "0" -> [nan |-> FALSE, n |-> 0]
    [] s = "1" -> [nan |-> FALSE, n |-> 1]
    [] s = "4" -> [nan |-> FALSE, n |-> 4]
    [] s = "6" -> [nan |-> FALSE, n |-> 6]
    [] s = "7" -> [nan |-> FALSE, n |-> 7]
    [] s = "8" -> [nan |-> FALSE, n |-> 8]
    [] s = "15" -> [nan |-> FALSE, n |-> 15]
    [] OTHER -> [nan |-> TRUE, n |-> 0]

Min(a, b) == IF a <= b THEN a ELSE b
Max(a, b) == IF a >= b THEN a ELSE b

\* quickOptionsModal.ts:172-173: parseInt(value) || 4, then Math.max(2, Math.min(12, .))
CustomCutsOnChange(value) ==
  LET parsed == ParseInt(value)
      numValue == IF parsed.nan \/ parsed.n = 0 THEN 4 ELSE parsed.n
  IN  Max(2, Min(12, numValue))

\* the fields of the modal (the size dropdown is left out: it takes no part in
\* any panel count)
\* (typed is the text last typed into the custom field since it was rendered)
NoText == "(not edited)"
NoQuickOptions ==
  [selectedStyle |-> "", selectedCartoonCuts |-> "", selectedCustomCuts |-> 0,
   typed |-> NoText]

\* new QuickOptionsModal(...), quickOptionsModal.ts:20-34, as main.ts:418-425 calls it
QuickOptionsModal(currentStyle, currentCartoonCuts, currentCustomCuts) ==
  [selectedStyle |-> currentStyle, selectedCartoonCuts |-> currentCartoonCuts,
   selectedCustomCuts |-> currentCustomCuts, typed |-> NoText]

getCartoonCutsNumberClamped(cartoonCuts, customCuts) ==
  IF cartoonCuts = "custom" THEN Max(2, Min(12, customCuts)) ELSE ParseInt(cartoonCuts).n

\* getCartoonCutsNumber, main.ts:433-438
getCartoonCutsNumber(cartoonCuts, customCuts) ==
  IF cartoonCuts = "custom" THEN customCuts ELSE ParseInt(cartoonCuts).n

-----------------------------------------------------------------------------
(* Settings and the state of one command invocation *)

\* the configurations explored with the default style and panel settings
SettingsDomain ==
  [autoRetryCount : 0..MaxRetry,
   showProgressModal : BOOLEAN,
   showPreviewBeforeGeneration : BOOLEAN,
   customPromptPrefix : {"", "pfx"},
   selectedProvider : {"openai"},
   openaiApiKey : {"", "sk-o"},
   googleApiKey : {"", "sk-g"},
   anthropicApiKey : {""},
   xaiApiKey : {""},
   imageStyle : {"infographic"},
   cartoonCuts : {"4"},
   customCartoonCuts : {4}]
  \cup
  [autoRetryCount : 0..MaxRetry,
   showProgressModal : BOOLEAN,
   showPreviewBeforeGeneration : BOOLEAN,
   customPromptPrefix : {"", "pfx"},
   selectedProvider : {"google"},
   openaiApiKey : {""},
   googleApiKey : {"", "sk-g"},
   anthropicApiKey : {""},
   xaiApiKey : {""},
   imageStyle : {"infographic"},
   cartoonCuts : {"4"},
   customCartoonCuts : {4}]

\* getProviderApiKey, main.ts:480-493
getProviderApiKey ==
  CASE settings.selectedProvider = "openai" -> settings.openaiApiKey
    [] settings.selectedProvider = "google" -> settings.googleApiKey
    [] settings.selectedProvider = "anthropic" -> settings.anthropicApiKey
    [] settings.selectedProvider = "xai" -> settings.xaiApiKey
    [] OTHER -> ""

\* toGenerationError, main.ts:498-504
toGenerationErrorKeepsType(e) ==
  [type |-> e.type, message |-> e.message, retryable |-> e.retryable,
   details |-> e.details]

\* toGenerationError, main.ts:498-504
toGenerationError(e) ==
  IF e.typed
  THEN [type |-> e.type, message |-> e.message, retryable |-> e.retryable,
        details |-> e.details]
  ELSE [type |-> "GENERATION_FAILED", message |-> e.message, retryable |-> FALSE,
        details |-> Undefined]
NoGenError == [type |-> "none", message |-> "", retryable |-> FALSE, details |-> Undefined]

\* what the preview modal resolves with (PreviewModalResult, main.ts:161)
NoPreviewResult == [confirmed |-> FALSE, regenerate |-> FALSE, prompt |-> NoFinalPrompt]

\* the path saveImage returns: a file made for the target note
NoPath == [note |-> NULL]
ImagePath(n) == [note |-> n]

\* the locals of an invocation, and what it did so far (called, opCalls, raised, waited,
\* issued, afterCancel, result, thrown, shown, notified record its history)
IdleProc ==
  [pc |-> "idle", cmd |-> "none",
   noteFile |-> NULL, noteContent |-> "", providerKey |-> "",
   finalPrompt |-> NoFinalPrompt,
   attempt |-> 0, lastError |-> NoError,
   progressModal |-> NoModal,
   regens |-> 0,
   called |-> {}, opCalls |-> 0, raised |-> NoError, waited |-> 0, issued |-> <<>>,
   cancelledInFlight |-> FALSE, afterCancel |-> {},
   sentPrompt |-> NoFinalPrompt, target |-> NULL,
   saved |-> FALSE,
   quickOptions |-> NoQuickOptions, selectedStyle |-> "", selectedCartoonCuts |-> 0,
   sentKey |-> "", sentStyle |-> "", sentPanels |-> 0,
   previewResult |-> NoPreviewResult, imagePath |-> NoPath, notified |-> <<>>,
   result |-> "none", thrown |-> NoError, shown |-> NoGenError]

\* the command returns: its locals are dropped, what it did stays on record
\* (of the preview's last decision the two flags, and the prompt last sent to the
\* image client)
Finish(r) ==
  [r EXCEPT !.pc = "done", !.noteFile = NULL, !.noteContent = "", !.providerKey = "",
            !.finalPrompt = NoFinalPrompt,
            !.target = NULL, !.lastError = NoError, !.regens = 0,
            !.quickOptions = NoQuickOptions, !.selectedStyle = "",
            !.selectedCartoonCuts = 0, !.sentKey = "", !.sentStyle = "",
            !.sentPanels = 0, !.previewResult = [@ EXCEPT !.prompt = NoFinalPrompt],
            !.imagePath = NoPath]

\* NanoBananaPlugin.updateProgress, main.ts:471-475, on the invocation's modal;
\* issued logs the states handed to the modal
updateProgress(r, state) ==
  IF r.progressModal.exists
  THEN [r EXCEPT !.progressModal = ModalUpdateProgress(@, state),
                 !.issued = Append(@, state)]
  ELSE r

\* the terminal notifications: showSuccess / showError of the progress modal when
\* the invocation holds one (open or not), a Notice otherwise; the success Notice
\* is a fixed text and the error Notice shows genError.message only
\* (main.ts:231-235, 241-245, 296-299, 379-383, 387-391)
MessageOnly(genError) == [NoGenError EXCEPT !.message = genError.message]

NotifySuccess(r) ==
  IF r.progressModal.exists
  THEN [r EXCEPT !.progressModal = ModalShowSuccess(@),
                 !.notified = Append(@, [kind |-> "success", surface |-> "modal",
                                         visible |-> r.progressModal.open,
                                         path |-> r.imagePath, error |-> NoGenError])]
  ELSE [r EXCEPT !.notified = Append(@, [kind |-> "success", surface |-> "notice",
                                         visible |-> TRUE,
                                         path |-> NoPath, error |-> NoGenError])]

NotifyError(r, genError) ==
  IF r.progressModal.exists
  THEN [r EXCEPT !.progressModal = ModalShowError(@),
                 !.notified = Append(@, [kind |-> "error", surface |-> "modal",
                                         visible |-> r.progressModal.open,
                                         path |-> NoPath, error |-> genError])]
  ELSE [r EXCEPT !.notified = Append(@, [kind |-> "error", surface |-> "notice",
                                         visible |-> TRUE,
                                         path |-> NoPath, error |-> MessageOnly(genError)])]

\* a call to a provider client or to the storage writer is issued
Call(r, name) ==
  [r EXCEPT !.called = @ \cup {name},
            !.afterCancel = IF r.cancelledInFlight THEN @ \cup {name} ELSE @]

-----------------------------------------------------------------------------
(* executeWithRetry, main.ts:443-466 *)

\* main.ts:452  lastError = error instanceof Error ? error : new Error(String(error))
WrapError(e) ==
  IF e.isError THEN e
  ELSE [typed |-> FALSE, type |-> "Error", retryable |-> FALSE, isError |-> TRUE,
        wrapped |-> TRUE, message |-> e.message, details |-> Undefined]

RetryableIgnoringFlag(e) == e.typed

\* main.ts:454
Retryable(e) == e.typed /\ e.retryable

RethrowsOneEarly(e, attempt) == ~Retryable(e) \/ attempt + 1 >= settings.autoRetryCount

\* main.ts:455  the catch block rethrows
Rethrows(e, attempt) == ~Retryable(e) \/ attempt = settings.autoRetryCount

DelayLinear(attempt) == (attempt + 1) * 1000

\* main.ts:460  the backoff in milliseconds
Delay(attempt) == (2 ^ attempt) * 1000

\* the call of executeWithRetry: attempt = 0 and the first operation() is awaited
RetryBegin(r, name, pc) ==
  [Call(r, name) EXCEPT !.pc = pc, !.attempt = 0, !.lastError = NoError,
                        !.opCalls = 1, !.raised = NoError, !.waited = 0]

\* the catch block of executeWithRetry for the thrown value e, main.ts:451-462:
\* "throw" when it rethrows lastError, "sleep" when it awaits the backoff
RetryCatch(r, e) ==
  LET r1 == [r EXCEPT !.lastError = WrapError(e), !.raised = e]
  IN  IF Rethrows(e, r.attempt)
      THEN [r1 EXCEPT !.thrown = r1.lastError]
      ELSE [r1 EXCEPT !.waited = @ + Delay(r.attempt)]

\* the backoff is over: attempt++, the loop test, the next operation(), main.ts:448-450
\* (and main.ts:465 when the loop ends)
RetryNext(r, pc) ==
  IF r.attempt + 1 <= settings.autoRetryCount
  THEN [r EXCEPT !.pc = pc, !.attempt = @ + 1, !.opCalls = @ + 1]
  ELSE [r EXCEPT !.attempt = @ + 1, !.thrown = r.lastError]

\* operation() resolved: executeWithRetry returns its value (main.ts:450) and its
\* locals are gone
RetryReturn(r) ==
  [r EXCEPT !.attempt = 0, !.lastError = NoError, !.opCalls = 0, !.raised = NoError,
            !.waited = 0]

-----------------------------------------------------------------------------
(* Pieces of generatePoster and regenerateLastPoster *)

\* catch and finally, main.ts:238-257 and main.ts:385-394 (the flag is cleared
\* by the action that uses this)
SessionCatch(r, err) ==
  [Finish(NotifyError(r, toGenerationError(err))) EXCEPT
     !.result = "error", !.thrown = err, !.shown = toGenerationError(err)]

\* the top of the regenerate loop up to the await of the prompt step, main.ts:122-144
LoopTop(r) ==
  LET r1 == IF settings.showProgressModal
            THEN [r EXCEPT !.progressModal = NewProgressModal, !.issued = <<>>]
            ELSE [r EXCEPT !.issued = <<>>]
      r2 == updateProgress(r1, State("generating-prompt", 20))
  IN  [RetryBegin(r2, "generatePrompt", "gp_prompt") EXCEPT
         !.sentKey = r.providerKey]

\* step 3 up to the await of the image step, main.ts:183-199
ImageStage(r) ==
  [RetryBegin(updateProgress(r, State("generating-image", 50)), "generateImage", "gp_image")
     EXCEPT !.sentPrompt = r.finalPrompt, !.sentKey = settings.googleApiKey,
            !.sentStyle = r.selectedStyle, !.sentPanels = r.selectedCartoonCuts]

SetProc(p, r) == proc' = [proc EXCEPT ![p] = r]

FinallyOnlyOnSuccess(result) == IF result = "error" THEN isGenerating ELSE FALSE

\* the value of the flag when the session is left: the finally blocks, main.ts:255-257
\* and main.ts:392-394, and the preview cancel, main.ts:164
Finally(result) == FALSE

GenerationInProgressIgnored == FALSE

\* the in-progress guard, main.ts:70 and main.ts:324
GenerationInProgress == isGenerating

-----------------------------------------------------------------------------
(* generatePoster, main.ts:69-258 *)

\* main.ts:70-82: the in-progress guard, the active view, the await of vault.read
GP_Start(p) ==
  /\ proc[p].pc = "idle"
  /\ LET r == [IdleProc EXCEPT !.cmd = "generatePoster"]
     IN  IF GenerationInProgress
         THEN SetProc(p, [Finish(r) EXCEPT !.result = "rejected"])
         ELSE \E a \in Notes \cup {NULL} :
                IF a = NULL
                THEN SetProc(p, [Finish(r) EXCEPT !.result = "noView"])
                ELSE /\ notes[a].exists
                     /\ SetProc(p, [r EXCEPT !.pc = "gp_read", !.noteFile = a])
  /\ UNCHANGED <<isGenerating, lastPrompt, lastNoteFile, settings, notes, attachments>>

\* main.ts:82-103: the note text, the credential checks, the options modal opens
GP_AfterRead(p) ==
  /\ proc[p].pc = "gp_read"
  /\ LET r == proc[p]
     IN  IF ~notes[r.noteFile].exists
         THEN SetProc(p, [Finish(r) EXCEPT !.result = "readFailed"])
         ELSE \E noteContent \in NoteTexts :
                IF Trim(noteContent) = ""
                THEN SetProc(p, [Finish(r) EXCEPT !.result = "empty"])
                ELSE IF getProviderApiKey = ""
                THEN SetProc(p, [Finish(r) EXCEPT !.result = "noKey"])
                ELSE IF settings.googleApiKey = ""
                THEN SetProc(p, [Finish(r) EXCEPT !.result = "noGoogleKey"])
                ELSE SetProc(p, [r EXCEPT !.pc = "gp_options",
                                          !.noteContent = noteContent,
                                          !.providerKey = getProviderApiKey,
                                          !.quickOptions =
                                            QuickOptionsModal(settings.imageStyle,
                                                              settings.cartoonCuts,
                                                              settings.customCartoonCuts)])
  /\ UNCHANGED <<isGenerating, lastPrompt, lastNoteFile, settings, notes, attachments>>

\* the style dropdown of the options modal, quickOptionsModal.ts:66-69 (the cartoon
\* settings are rendered anew)
QO_StyleChange(p) ==
  /\ proc[p].pc = "gp_options"
  /\ \E value \in ImageStyles :
       SetProc(p, [proc[p] EXCEPT !.quickOptions.selectedStyle = value,
                                  !.quickOptions.typed = NoText])
  /\ UNCHANGED <<isGenerating, lastPrompt, lastNoteFile, settings, notes, attachments>>

\* the panel-cuts dropdown, shown for the cartoon style, quickOptionsModal.ts:138-161
QO_CartoonCutsChange(p) ==
  /\ proc[p].pc = "gp_options"
  /\ proc[p].quickOptions.selectedStyle = "cartoon"
  /\ \E value \in CartoonCutsChoices :
       SetProc(p, [proc[p] EXCEPT !.quickOptions.selectedCartoonCuts = value,
                                  !.quickOptions.typed = NoText])
  /\ UNCHANGED <<isGenerating, lastPrompt, lastNoteFile, settings, notes, attachments>>

\* the custom panel-count field, shown for cartoon / custom, quickOptionsModal.ts:164-176
QO_CustomCutsChange(p) ==
  /\ proc[p].pc = "gp_options"
  /\ proc[p].quickOptions.selectedStyle = "cartoon"
  /\ proc[p].quickOptions.selectedCartoonCuts = "custom"
  /\ \E value \in TypedTexts :
       SetProc(p, [proc[p] EXCEPT
                     !.quickOptions.selectedCustomCuts = CustomCutsOnChange(value),
                     !.quickOptions.typed = value])
  /\ UNCHANGED <<isGenerating, lastPrompt, lastNoteFile, settings, notes, attachments>>

\* main.ts:103-144: the options modal returns; the flag is set; first pass of the loop
GP_AfterOptions(p) ==
  /\ proc[p].pc = "gp_options"
  /\ LET r == proc[p]
     IN  \E confirmed \in BOOLEAN :
           IF ~confirmed
           THEN /\ SetProc(p, [Finish(r) EXCEPT !.result = "optionsCancelled"])
                /\ UNCHANGED <<isGenerating, lastNoteFile>>
           ELSE /\ isGenerating' = TRUE
                /\ lastNoteFile' = r.noteFile
                /\ SetProc(p, LoopTop([r EXCEPT
                      !.selectedStyle = r.quickOptions.selectedStyle,
                      !.selectedCartoonCuts =
                         getCartoonCutsNumber(r.quickOptions.selectedCartoonCuts,
                                              r.quickOptions.selectedCustomCuts),
                      !.quickOptions = NoQuickOptions]))
  /\ UNCHANGED <<lastPrompt, settings, notes, attachments>>

\* main.ts:137-199: the prompt client answered; the prompt is cached; preview or step 3
GP_PromptOk(p) ==
  /\ proc[p].pc = "gp_prompt"
  /\ \E v \in 1..NumVariants :
       LET r == RetryReturn(proc[p])
           prompt == [note |-> r.noteFile, v |-> v]
           r1 == [r EXCEPT !.finalPrompt =
                    [base |-> prompt, prefix |-> settings.customPromptPrefix,
                     edited |-> FALSE]]
       IN  /\ lastPrompt' = prompt
           /\ IF settings.showPreviewBeforeGeneration
              THEN SetProc(p, [r1 EXCEPT !.pc = "gp_preview", !.progressModal = NoModal])
              ELSE SetProc(p, ImageStage(r1))
  /\ UNCHANGED <<isGenerating, lastNoteFile, settings, notes, attachments>>

\* main.ts:137 with executeWithRetry's catch: the prompt client threw
GP_PromptFail(p) ==
  /\ proc[p].pc = "gp_prompt"
  /\ \E e \in ProviderErrors :
       LET r == RetryCatch(proc[p], e)
       IN  IF Rethrows(e, proc[p].attempt)
           THEN /\ SetProc(p, SessionCatch(r, r.thrown))
                /\ isGenerating' = Finally("error")
           ELSE /\ SetProc(p, [r EXCEPT !.pc = "gp_prompt_sleep"])
                /\ UNCHANGED isGenerating
  /\ UNCHANGED <<lastPrompt, lastNoteFile, settings, notes, attachments>>

\* the backoff of the prompt step is over
GP_PromptWake(p) ==
  /\ proc[p].pc = "gp_prompt_sleep"
  /\ LET r == RetryNext(proc[p], "gp_prompt")
     IN  IF r.pc = "gp_prompt"
         THEN SetProc(p, r) /\ UNCHANGED isGenerating
         ELSE SetProc(p, SessionCatch(r, r.thrown)) /\ isGenerating' = Finally("error")
  /\ UNCHANGED <<lastPrompt, lastNoteFile, settings, notes, attachments>>

\* a decision that does not proceed: its prompt is never read
Decision(res) == [res EXCEPT !.prompt = NoFinalPrompt]

PreviewBranchNoBackEdge(res) == IF ~res.confirmed THEN "cancel" ELSE "proceed"

\* main.ts:163-171: what the loop does with the decision
PreviewBranch(res) ==
  IF ~res.confirmed THEN "cancel"
  ELSE IF res.regenerate THEN "regenerate"
  ELSE "proceed"

PromptAfterPreviewKeepsShown(shown, res) == shown

\* main.ts:173  finalPrompt = previewResult.prompt
PromptAfterPreview(shown, res) == res.prompt

\* main.ts:161-199: the preview modal returns a decision (the prompt it returns is
\* the one it was shown, or the user's edit of it)
GP_Preview(p) ==
  /\ proc[p].pc = "gp_preview"
  /\ \E confirmed \in BOOLEAN, regenerate \in BOOLEAN, edited \in BOOLEAN :
       LET r == proc[p]
           res == [confirmed |-> confirmed, regenerate |-> regenerate,
                   prompt |-> [r.finalPrompt EXCEPT !.edited = edited]]
       IN  CASE PreviewBranch(res) = "cancel" ->
                  /\ isGenerating' = Finally("previewCancelled")
                  /\ SetProc(p, [Finish([r EXCEPT !.previewResult = res])
                                   EXCEPT !.result = "previewCancelled"])
             [] PreviewBranch(res) = "regenerate" ->
                  /\ r.regens < MaxRegen
                  /\ SetProc(p, LoopTop([r EXCEPT !.regens = @ + 1,
                                                  !.previewResult = Decision(res)]))
                  /\ UNCHANGED isGenerating
             [] OTHER ->
                  LET r1 == [r EXCEPT !.previewResult = res,
                                      !.finalPrompt = PromptAfterPreview(r.finalPrompt, res)]
                      r2 == IF settings.showProgressModal
                            THEN [r1 EXCEPT !.progressModal = NewProgressModal]
                            ELSE r1
                  IN  /\ SetProc(p, ImageStage(r2))
                      /\ UNCHANGED isGenerating
  /\ UNCHANGED <<lastPrompt, lastNoteFile, settings, notes, attachments>>

\* main.ts:189-213: the image client answered; step 4 up to the await of saveImage
GP_ImageOk(p) ==
  /\ proc[p].pc = "gp_image"
  /\ LET r == updateProgress(RetryReturn(proc[p]), State("saving", 80))
     IN  SetProc(p, [Call(r, "saveImage") EXCEPT !.pc = "gp_save", !.target = r.noteFile])
  /\ UNCHANGED <<isGenerating, lastPrompt, lastNoteFile, settings, notes, attachments>>

\* main.ts:189 with executeWithRetry's catch: the image client threw
GP_ImageFail(p) ==
  /\ proc[p].pc = "gp_image"
  /\ \E e \in ProviderErrors :
       LET r == RetryCatch(proc[p], e)
       IN  IF Rethrows(e, proc[p].attempt)
           THEN /\ SetProc(p, SessionCatch(r, r.thrown))
                /\ isGenerating' = Finally("error")
           ELSE /\ SetProc(p, [r EXCEPT !.pc = "gp_image_sleep"])
                /\ UNCHANGED isGenerating
  /\ UNCHANGED <<lastPrompt, lastNoteFile, settings, notes, attachments>>

\* the backoff of the image step is over
GP_ImageWake(p) ==
  /\ proc[p].pc = "gp_image_sleep"
  /\ LET r == RetryNext(proc[p], "gp_image")
     IN  IF r.pc = "gp_image"
         THEN /\ SetProc(p, [r EXCEPT !.sentKey = settings.googleApiKey])
              /\ UNCHANGED isGenerating
         ELSE SetProc(p, SessionCatch(r, r.thrown)) /\ isGenerating' = Finally("error")
  /\ UNCHANGED <<lastPrompt, lastNoteFile, settings, notes, attachments>>

\* main.ts:208-222: saveImage wrote the file; step 5 up to the await of embedImageInNote
GP_SaveOk(p) ==
  /\ proc[p].pc = "gp_save"
  /\ attachments < MaxAttachments
  /\ attachments' = attachments + 1
  /\ LET r == updateProgress(proc[p], State("embedding", 95))
     IN  SetProc(p, [Call(r, "embedImageInNote") EXCEPT !.pc = "gp_embed", !.saved = TRUE,
                                                       !.imagePath = ImagePath(r.target),
                                                       !.target = r.noteFile])
  /\ UNCHANGED <<isGenerating, lastPrompt, lastNoteFile, settings, notes>>

GP_SaveFailGoesOn(p) ==
  /\ proc[p].pc = "gp_save"
  /\ LET r == updateProgress(proc[p], State("embedding", 95))
     IN  SetProc(p, [Call(r, "embedImageInNote") EXCEPT !.pc = "gp_embed",
                                                       !.target = r.noteFile])
  /\ UNCHANGED <<isGenerating, lastPrompt, lastNoteFile, settings, notes, attachments>>

\* main.ts:208 with the catch block: saveImage threw
GP_SaveFail(p) ==
  /\ proc[p].pc = "gp_save"
  /\ \E e \in StorageErrors : SetProc(p, SessionCatch(proc[p], e))
  /\ isGenerating' = Finally("error")
  /\ UNCHANGED <<lastPrompt, lastNoteFile, settings, notes, attachments>>

\* main.ts:222-257: the note was rewritten; complete; the success surface; finally
GP_EmbedOk(p) ==
  /\ proc[p].pc = "gp_embed"
  /\ LET r == proc[p]
         r1 == updateProgress(r, State("complete", 100))
     IN  /\ notes[r.target].exists
         /\ notes[r.target].embeds < MaxEmbeds
         /\ notes' = [notes EXCEPT ![r.target].embeds = @ + 1]
         /\ SetProc(p, [Finish(NotifySuccess(r1)) EXCEPT !.result = "success",
                          !.afterCancel = IF r.cancelledInFlight
                                          THEN @ \cup {"noteModified"} ELSE @])
  /\ isGenerating' = Finally("success")
  /\ UNCHANGED <<lastPrompt, lastNoteFile, settings, attachments>>

GP_EmbedFailRollsBack(p) ==
  /\ proc[p].pc = "gp_embed"
  /\ \E e \in StorageErrors : SetProc(p, SessionCatch(proc[p], e))
  /\ isGenerating' = Finally("error")
  /\ attachments' = attachments - 1
  /\ UNCHANGED <<lastPrompt, lastNoteFile, settings, notes>>

\* main.ts:222 with the catch block: embedImageInNote threw
GP_EmbedFail(p) ==
  /\ proc[p].pc = "gp_embed"
  /\ \E e \in StorageErrors : SetProc(p, SessionCatch(proc[p], e))
  /\ isGenerating' = Finally("error")
  /\ UNCHANGED <<lastPrompt, lastNoteFile, settings, notes, attachments>>

-----------------------------------------------------------------------------
(* generatePromptOnly, main.ts:263-301 *)

\* main.ts:264-270: the active view, the await of vault.read
PO_Start(p) ==
  /\ proc[p].pc = "idle"
  /\ LET r == [IdleProc EXCEPT !.cmd = "generatePromptOnly"]
     IN  \E a \in Notes \cup {NULL} :
           IF a = NULL
           THEN SetProc(p, [Finish(r) EXCEPT !.result = "noView"])
           ELSE /\ notes[a].exists
                /\ SetProc(p, [r EXCEPT !.pc = "po_read", !.noteFile = a])
  /\ UNCHANGED <<isGenerating, lastPrompt, lastNoteFile, settings, notes, attachments>>

\* main.ts:270-291: the note text, the credential check, the await of the prompt client
PO_AfterRead(p) ==
  /\ proc[p].pc = "po_read"
  /\ LET r == proc[p]
     IN  IF ~notes[r.noteFile].exists
         THEN SetProc(p, [Finish(r) EXCEPT !.result = "readFailed"])
         ELSE \E noteContent \in NoteTexts :
                IF Trim(noteContent) = ""
                THEN SetProc(p, [Finish(r) EXCEPT !.result = "empty"])
                ELSE IF getProviderApiKey = ""
                THEN SetProc(p, [Finish(r) EXCEPT !.result = "noKey"])
                ELSE SetProc(p, [Call(r, "generatePrompt") EXCEPT
                                   !.pc = "po_prompt",
                                   !.noteContent = noteContent,
                                   !.providerKey = getProviderApiKey,
                                   !.sentKey = getProviderApiKey])
  /\ UNCHANGED <<isGenerating, lastPrompt, lastNoteFile, settings, notes, attachments>>

\* main.ts:286-293: the prompt client answered; the await of the clipboard write
PO_PromptOk(p) ==
  /\ proc[p].pc = "po_prompt"
  /\ \E v \in 1..NumVariants :
       LET r == proc[p]
       IN  SetProc(p, [r EXCEPT !.pc = "po_clipboard",
                         !.finalPrompt.base = [note |-> r.noteFile, v |-> v]])
  /\ UNCHANGED <<isGenerating, lastPrompt, lastNoteFile, settings, notes, attachments>>

\* main.ts:286 with the catch block, main.ts:297-300: the prompt client threw
PO_PromptFail(p) ==
  /\ proc[p].pc = "po_prompt"
  /\ \E e \in ProviderErrors :
       SetProc(p, [Finish(NotifyError(proc[p], toGenerationError(e))) EXCEPT
                     !.result = "error", !.thrown = e, !.shown = toGenerationError(e)])
  /\ UNCHANGED <<isGenerating, lastPrompt, lastNoteFile, settings, notes, attachments>>

PO_ClipboardOkNoCache(p) ==
  /\ proc[p].pc = "po_clipboard"
  /\ SetProc(p, [Finish(NotifySuccess(proc[p])) EXCEPT !.result = "success"])
  /\ UNCHANGED <<isGenerating, lastPrompt, lastNoteFile, settings, notes, attachments>>

\* main.ts:293-296: the clipboard took the text; the prompt is cached
PO_ClipboardOk(p) ==
  /\ proc[p].pc = "po_clipboard"
  /\ lastPrompt' = proc[p].finalPrompt.base
  /\ SetProc(p, [Finish(NotifySuccess(proc[p])) EXCEPT !.result = "success"])
  /\ UNCHANGED <<isGenerating, lastNoteFile, settings, notes, attachments>>

\* main.ts:293 with the catch block: the clipboard write was refused
PO_ClipboardFail(p) ==
  /\ proc[p].pc = "po_clipboard"
  /\ SetProc(p, [Finish(NotifyError(proc[p], toGenerationError(PlainError))) EXCEPT
                   !.result = "error", !.thrown = PlainError,
                   !.shown = toGenerationError(PlainError)])
  /\ UNCHANGED <<isGenerating, lastPrompt, lastNoteFile, settings, notes, attachments>>

-----------------------------------------------------------------------------
(* regenerateLastPoster, main.ts:306-395 *)

RegenerateEntryNoFileCheck ==
  IF lastPrompt = EmptyPrompt THEN "noPrompt"
  ELSE IF lastNoteFile = NULL THEN "noNote"
  ELSE IF GenerationInProgress THEN "rejected"
  ELSE "accepted"

\* the entry checks in the order of the code, main.ts:307-327
RegenerateEntry ==
  IF lastPrompt = EmptyPrompt THEN "noPrompt"
  ELSE IF lastNoteFile = NULL THEN "noNote"
  ELSE IF ~notes[lastNoteFile].exists THEN "noteGone"
  ELSE IF GenerationInProgress THEN "rejected"
  ELSE "accepted"

LastPromptArgWithPrefix ==
  [base |-> lastPrompt, prefix |-> settings.customPromptPrefix, edited |-> FALSE]

\* the prompt argument of imageService.generateImage, main.ts:348
LastPromptArg == [base |-> lastPrompt, prefix |-> "", edited |-> FALSE]

\* the arguments of imageService.generateImage, main.ts:347-355, read from the
\* plugin's fields when the operation runs (at every attempt)
RegenerateImageArgs(r) ==
  [r EXCEPT !.sentPrompt = LastPromptArg,
            !.sentKey = settings.googleApiKey,
            !.sentStyle = settings.imageStyle,
            !.sentPanels = getCartoonCutsNumber(settings.cartoonCuts,
                                                settings.customCartoonCuts)]

\* main.ts:307-356: the entry checks, the flag, the await of the image step
RG_Start(p) ==
  /\ proc[p].pc = "idle"
  /\ LET r == [IdleProc EXCEPT !.cmd = "regenerateLastPoster"]
     IN  IF RegenerateEntry # "accepted"
         THEN /\ SetProc(p, [Finish(r) EXCEPT !.result = RegenerateEntry])
              /\ UNCHANGED isGenerating
         ELSE LET r1 == IF settings.showProgressModal
                        THEN [r EXCEPT !.progressModal = NewProgressModal]
                        ELSE r
                  r2 == updateProgress(r1, State("generating-image", 40))
              IN  /\ isGenerating' = TRUE
                  /\ SetProc(p, [RegenerateImageArgs(RetryBegin(r2, "generateImage",
                                                                "rg_image"))
                                   EXCEPT !.noteFile = lastNoteFile])
  /\ UNCHANGED <<lastPrompt, lastNoteFile, settings, notes, attachments>>

\* main.ts:346-369: the image client answered; the await of saveImage
RG_ImageOk(p) ==
  /\ proc[p].pc = "rg_image"
  /\ LET r == updateProgress(RetryReturn(proc[p]), State("saving", 80))
     IN  SetProc(p, [Call(r, "saveImage") EXCEPT !.pc = "rg_save", !.target = lastNoteFile])
  /\ UNCHANGED <<isGenerating, lastPrompt, lastNoteFile, settings, notes, attachments>>

\* main.ts:346 with executeWithRetry's catch: the image client threw
RG_ImageFail(p) ==
  /\ proc[p].pc = "rg_image"
  /\ \E e \in ProviderErrors :
       LET r == RetryCatch(proc[p], e)
       IN  IF Rethrows(e, proc[p].attempt)
           THEN /\ SetProc(p, SessionCatch(r, r.thrown))
                /\ isGenerating' = Finally("error")
           ELSE /\ SetProc(p, [r EXCEPT !.pc = "rg_image_sleep"])
                /\ UNCHANGED isGenerating
  /\ UNCHANGED <<lastPrompt, lastNoteFile, settings, notes, attachments>>

\* the backoff is over: the next attempt reads this.lastPrompt again
RG_ImageWake(p) ==
  /\ proc[p].pc = "rg_image_sleep"
  /\ LET r == RetryNext(proc[p], "rg_image")
     IN  IF r.pc = "rg_image"
         THEN SetProc(p, RegenerateImageArgs(r)) /\ UNCHANGED isGenerating
         ELSE SetProc(p, SessionCatch(r, r.thrown)) /\ isGenerating' = Finally("error")
  /\ UNCHANGED <<lastPrompt, lastNoteFile, settings, notes, attachments>>

\* main.ts:364-377: saveImage wrote the file; the await of embedImageInNote
RG_SaveOk(p) ==
  /\ proc[p].pc = "rg_save"
  /\ attachments < MaxAttachments
  /\ attachments' = attachments + 1
  /\ LET r == updateProgress(proc[p], State("embedding", 95))
     IN  SetProc(p, [Call(r, "embedImageInNote") EXCEPT !.pc = "rg_embed", !.saved = TRUE,
                                                       !.imagePath = ImagePath(r.target),
                                                       !.target = lastNoteFile])
  /\ UNCHANGED <<isGenerating, lastPrompt, lastNoteFile, settings, notes>>

\* main.ts:364 with the catch block: saveImage threw
RG_SaveFail(p) ==
  /\ proc[p].pc = "rg_save"
  /\ \E e \in StorageErrors : SetProc(p, SessionCatch(proc[p], e))
  /\ isGenerating' = Finally("error")
  /\ UNCHANGED <<lastPrompt, lastNoteFile, settings, notes, attachments>>

\* main.ts:377-394: the note was rewritten; the success surface; finally
RG_EmbedOk(p) ==
  /\ proc[p].pc = "rg_embed"
  /\ LET r == proc[p]
     IN  /\ notes[r.target].exists
         /\ notes[r.target].embeds < MaxEmbeds
         /\ notes' = [notes EXCEPT ![r.target].embeds = @ + 1]
         /\ SetProc(p, [Finish(NotifySuccess(r)) EXCEPT !.result = "success",
                          !.afterCancel = IF r.cancelledInFlight
                                          THEN @ \cup {"noteModified"} ELSE @])
  /\ isGenerating' = Finally("success")
  /\ UNCHANGED <<lastPrompt, lastNoteFile, settings, attachments>>

\* main.ts:377 with the catch block: embedImageInNote threw
RG_EmbedFail(p) ==
  /\ proc[p].pc = "rg_embed"
  /\ \E e \in StorageErrors : SetProc(p, SessionCatch(proc[p], e))
  /\ isGenerating' = Finally("error")
  /\ UNCHANGED <<lastPrompt, lastNoteFile, settings, notes, attachments>>

-----------------------------------------------------------------------------
(* The user and the vault *)

\* a provider call of the invocation is awaited
InFlight(r) == r.pc \in {"gp_prompt", "gp_image", "rg_image"}

\* the cancel button of the progress modal, progressModal.ts:65-71 (no onCancel
\* callback is ever registered: main.ts never calls setOnCancel)
CancelProgress(p) ==
  /\ proc[p].pc \notin {"idle", "done"}
  /\ proc[p].progressModal.exists
  /\ proc[p].progressModal.open
  /\ proc[p].progressModal.content = "progress"
  /\ SetProc(p, [proc[p] EXCEPT
                   !.progressModal = ModalClose([@ EXCEPT !.isCancelled = TRUE]),
                   !.cancelledInFlight = @ \/ InFlight(proc[p])])
  /\ UNCHANGED <<isGenerating, lastPrompt, lastNoteFile, settings, notes, attachments>>

\* the settings tab (registered at main.ts:49): the user sets or clears an API key
ChangeApiKey ==
  /\ \E k \in {"openaiApiKey", "googleApiKey"} :
       \E value \in {"", IF k = "openaiApiKey" THEN "sk-o" ELSE "sk-g"} :
         /\ settings[k] # value
         /\ settings' = [settings EXCEPT ![k] = value]
  /\ UNCHANGED <<isGenerating, lastPrompt, lastNoteFile, notes, attachments, proc>>

\* the promise of the command settles: the invocation and its locals are gone
Return(p) ==
  /\ proc[p].pc = "done"
  /\ SetProc(p, IdleProc)
  /\ UNCHANGED <<isGenerating, lastPrompt, lastNoteFile, settings, notes, attachments>>

\* the user deletes a note
DeleteNote(n) ==
  /\ notes[n].exists
  /\ notes' = [notes EXCEPT ![n].exists = FALSE]
  /\ UNCHANGED <<isGenerating, lastPrompt, lastNoteFile, settings, attachments, proc>>

-----------------------------------------------------------------------------
(* The specification *)

\* the plugin after onload (main.ts:17-19), with the given commands' invocations idle
InitWith(S, P) ==
  /\ isGenerating = FALSE
  /\ lastPrompt = EmptyPrompt
  /\ lastNoteFile = NULL
  /\ settings \in S
  /\ notes = [n \in Notes |-> [exists |-> TRUE, embeds |-> 0]]
  /\ attachments = 0
  /\ proc = [p \in P |-> IdleProc]

\* one command at a time, every configuration
Init == InitWith(SettingsDomain, {"p1"})

Next ==
  \/ \E p \in DOMAIN proc : GP_Start(p)
  \/ \E p \in DOMAIN proc : GP_AfterRead(p)
  \/ \E p \in DOMAIN proc : GP_AfterOptions(p)
  \/ \E p \in DOMAIN proc : GP_PromptOk(p)
  \/ \E p \in DOMAIN proc : GP_PromptFail(p)
  \/ \E p \in DOMAIN proc : GP_PromptWake(p)
  \/ \E p \in DOMAIN proc : GP_Preview(p)
  \/ \E p \in DOMAIN proc : GP_ImageOk(p)
  \/ \E p \in DOMAIN proc : GP_ImageFail(p)
  \/ \E p \in DOMAIN proc : GP_ImageWake(p)
  \/ \E p \in DOMAIN proc : GP_SaveOk(p)
  \/ \E p \in DOMAIN proc : GP_SaveFail(p)
  \/ \E p \in DOMAIN proc : GP_EmbedOk(p)
  \/ \E p \in DOMAIN proc : GP_EmbedFail(p)
  \/ \E p \in DOMAIN proc : PO_Start(p)
  \/ \E p \in DOMAIN proc : PO_AfterRead(p)
  \/ \E p \in DOMAIN proc : PO_PromptOk(p)
  \/ \E p \in DOMAIN proc : PO_PromptFail(p)
  \/ \E p \in DOMAIN proc : PO_ClipboardOk(p)
  \/ \E p \in DOMAIN proc : PO_ClipboardFail(p)
  \/ \E p \in DOMAIN proc : RG_Start(p)
  \/ \E p \in DOMAIN proc : RG_ImageOk(p)
  \/ \E p \in DOMAIN proc : RG_ImageFail(p)
  \/ \E p \in DOMAIN proc : RG_ImageWake(p)
  \/ \E p \in DOMAIN proc : RG_SaveOk(p)
  \/ \E p \in DOMAIN proc : RG_SaveFail(p)
  \/ \E p \in DOMAIN proc : RG_EmbedOk(p)
  \/ \E p \in DOMAIN proc : RG_EmbedFail(p)
  \/ \E p \in DOMAIN proc : CancelProgress(p)
  \/ \E p \in DOMAIN proc : Return(p)
  \/ \E n \in Notes : DeleteNote(n)

Spec == Init /\ [][Next]_vars

\* two invocations at once, with the progress and preview surfaces switched off in
\* the settings (so GP_Preview and CancelProgress are never enabled), in a vault
\* where no note is deleted
ConcSettings ==
  {s \in SettingsDomain :
     /\ ~s.showProgressModal
     /\ ~s.showPreviewBeforeGeneration
     /\ s.autoRetryCount <= 1
     /\ s.customPromptPrefix = ""
     /\ s.selectedProvider = "openai"
     /\ s.openaiApiKey # ""
     /\ s.googleApiKey # ""}

ConcInit == InitWith(ConcSettings, Procs)

ConcNext ==
  \/ \E p \in DOMAIN proc : GP_Start(p)
  \/ \E p \in DOMAIN proc : GP_AfterRead(p)
  \/ \E p \in DOMAIN proc : GP_AfterOptions(p)
  \/ \E p \in DOMAIN proc : GP_PromptOk(p)
  \/ \E p \in DOMAIN proc : GP_PromptFail(p)
  \/ \E p \in DOMAIN proc : GP_PromptWake(p)
  \/ \E p \in DOMAIN proc : GP_ImageOk(p)
  \/ \E p \in DOMAIN proc : GP_ImageFail(p)
  \/ \E p \in DOMAIN proc : GP_ImageWake(p)
  \/ \E p \in DOMAIN proc : GP_SaveOk(p)
  \/ \E p \in DOMAIN proc : GP_SaveFail(p)
  \/ \E p \in DOMAIN proc : GP_EmbedOk(p)
  \/ \E p \in DOMAIN proc : GP_EmbedFail(p)
  \/ \E p \in DOMAIN proc : PO_Start(p)
  \/ \E p \in DOMAIN proc : PO_AfterRead(p)
  \/ \E p \in DOMAIN proc : PO_PromptOk(p)
  \/ \E p \in DOMAIN proc : PO_PromptFail(p)
  \/ \E p \in DOMAIN proc : PO_ClipboardOk(p)
  \/ \E p \in DOMAIN proc : PO_ClipboardFail(p)
  \/ \E p \in DOMAIN proc : RG_Start(p)
  \/ \E p \in DOMAIN proc : RG_ImageOk(p)
  \/ \E p \in DOMAIN proc : RG_ImageFail(p)
  \/ \E p \in DOMAIN proc : RG_ImageWake(p)
  \/ \E p \in DOMAIN proc : RG_SaveOk(p)
  \/ \E p \in DOMAIN proc : RG_SaveFail(p)
  \/ \E p \in DOMAIN proc : RG_EmbedOk(p)
  \/ \E p \in DOMAIN proc : RG_EmbedFail(p)
  \/ \E p \in DOMAIN proc : Return(p)

ConcSpec == ConcInit /\ [][ConcNext]_vars

\* one command at a time, every combination of the retry count and the two
\* surfaces, every await eventually settling: provider calls, file operations,
\* timers and modals return (the user does not leave a modal open for ever)
LiveSettings ==
  {s \in SettingsDomain :
     /\ s.customPromptPrefix = ""
     /\ s.selectedProvider = "openai"
     /\ s.openaiApiKey # ""
     /\ s.googleApiKey # ""}

Continue(p) ==
  \/ GP_AfterRead(p) \/ GP_AfterOptions(p)
  \/ GP_PromptOk(p) \/ GP_PromptFail(p) \/ GP_PromptWake(p) \/ GP_Preview(p)
  \/ GP_ImageOk(p) \/ GP_ImageFail(p) \/ GP_ImageWake(p)
  \/ GP_SaveOk(p) \/ GP_SaveFail(p) \/ GP_EmbedOk(p) \/ GP_EmbedFail(p)
  \/ PO_AfterRead(p) \/ PO_PromptOk(p) \/ PO_PromptFail(p)
  \/ PO_ClipboardOk(p) \/ PO_ClipboardFail(p)
  \/ RG_ImageOk(p) \/ RG_ImageFail(p) \/ RG_ImageWake(p)
  \/ RG_SaveOk(p) \/ RG_SaveFail(p) \/ RG_EmbedOk(p) \/ RG_EmbedFail(p)

FairSpec ==
  /\ InitWith(LiveSettings, {"p1"})
  /\ [][Next]_vars
  /\ WF_vars(Continue("p1"))

\* one command at a time, the user working the options modal, for stored style
\* and panel settings of every kind; no retries, no progress modal, no preview
OptionsSettings ==
  [autoRetryCount : {0},
   showProgressModal : {FALSE},
   showPreviewBeforeGeneration : {FALSE},
   customPromptPrefix : {""},
   selectedProvider : {"openai"},
   openaiApiKey : {"sk-o"},
   googleApiKey : {"sk-g"},
   anthropicApiKey : {""},
   xaiApiKey : {""},
   imageStyle : ImageStyles,
   cartoonCuts : CartoonCutsChoices,
   customCartoonCuts : StoredCustomCuts]

OptionsInit == InitWith(OptionsSettings, {"p1"})

\* the steps of the three commands when no retry, progress modal or preview is configured
PlainNext ==
  \/ \E p \in DOMAIN proc : GP_Start(p)
  \/ \E p \in DOMAIN proc : GP_AfterRead(p)
  \/ \E p \in DOMAIN proc : GP_AfterOptions(p)
  \/ \E p \in DOMAIN proc : GP_PromptOk(p)
  \/ \E p \in DOMAIN proc : GP_PromptFail(p)
  \/ \E p \in DOMAIN proc : GP_ImageOk(p)
  \/ \E p \in DOMAIN proc : GP_ImageFail(p)
  \/ \E p \in DOMAIN proc : GP_SaveOk(p)
  \/ \E p \in DOMAIN proc : GP_SaveFail(p)
  \/ \E p \in DOMAIN proc : GP_EmbedOk(p)
  \/ \E p \in DOMAIN proc : GP_EmbedFail(p)
  \/ \E p \in DOMAIN proc : PO_Start(p)
  \/ \E p \in DOMAIN proc : PO_AfterRead(p)
  \/ \E p \in DOMAIN proc : PO_PromptOk(p)
  \/ \E p \in DOMAIN proc : PO_PromptFail(p)
  \/ \E p \in DOMAIN proc : PO_ClipboardOk(p)
  \/ \E p \in DOMAIN proc : PO_ClipboardFail(p)
  \/ \E p \in DOMAIN proc : RG_Start(p)
  \/ \E p \in DOMAIN proc : RG_ImageOk(p)
  \/ \E p \in DOMAIN proc : RG_ImageFail(p)
  \/ \E p \in DOMAIN proc : RG_SaveOk(p)
  \/ \E p \in DOMAIN proc : RG_SaveFail(p)
  \/ \E p \in DOMAIN proc : RG_EmbedOk(p)
  \/ \E p \in DOMAIN proc : RG_EmbedFail(p)
  \/ \E p \in DOMAIN proc : Return(p)

OptionsNext ==
  \/ PlainNext
  \/ \E p \in DOMAIN proc : QO_StyleChange(p)
  \/ \E p \in DOMAIN proc : QO_CartoonCutsChange(p)
  \/ \E p \in DOMAIN proc : QO_CustomCutsChange(p)

OptionsSpec == OptionsInit /\ [][OptionsNext]_vars

\* one command at a time, the user setting and clearing API keys in the settings
\* tab at any moment; default options, no retries, no progress modal, no preview
KeySettings ==
  {s \in SettingsDomain :
     /\ s.autoRetryCount = 0
     /\ ~s.showProgressModal
     /\ ~s.showPreviewBeforeGeneration
     /\ s.customPromptPrefix = ""
     /\ s.selectedProvider = "openai"
     /\ s.openaiApiKey # ""
     /\ s.googleApiKey # ""}

KeyInit == InitWith(KeySettings, {"p1"})

KeyNext ==
  \/ PlainNext
  \/ ChangeApiKey

KeySpec == KeyInit /\ [][KeyNext]_vars

------------------------------------------------------------------------\* one command at a time, with up to MaxBackoffRetry retries configured, both keys
\* set, no progress modal and no preview
BackoffSettings ==
  [autoRetryCount : 0..MaxBackoffRetry,
   showProgressModal : {FALSE},
   showPreviewBeforeGeneration : {FALSE},
   customPromptPrefix : {""},
   selectedProvider : {"openai"},
   openaiApiKey : {"sk-o"},
   googleApiKey : {"sk-g"},
   anthropicApiKey : {""},
   xaiApiKey : {""},
   imageStyle : {"infographic"},
   cartoonCuts : {"4"},
   customCartoonCuts : {4}]

BackoffInit == InitWith(BackoffSettings, {"p1"})

BackoffSpec == BackoffInit /\ [][ConcNext]_vars

\* generatePoster invoked in one slot and regenerateLastPoster in another, with and
\* without a custom prefix and a preview; no retries, no progress modal
ReplaySettings ==
  {s \in SettingsDomain :
     /\ s.autoRetryCount = 0
     /\ ~s.showProgressModal
     /\ s.selectedProvider = "openai"
     /\ s.openaiApiKey # ""
     /\ s.googleApiKey # ""}

ReplayInit == InitWith(ReplaySettings, Procs)

ReplayNext ==
  \/ GP_Start("p1")
  \/ GP_AfterRead("p1")
  \/ GP_AfterOptions("p1")
  \/ GP_PromptOk("p1")
  \/ GP_PromptFail("p1")
  \/ GP_Preview("p1")
  \/ GP_ImageOk("p1")
  \/ GP_ImageFail("p1")
  \/ GP_SaveOk("p1")
  \/ GP_SaveFail("p1")
  \/ GP_EmbedOk("p1")
  \/ GP_EmbedFail("p1")
  \/ RG_Start("p2")
  \/ RG_ImageOk("p2")
  \/ RG_ImageFail("p2")
  \/ RG_SaveOk("p2")
  \/ RG_SaveFail("p2")
  \/ RG_EmbedOk("p2")
  \/ RG_EmbedFail("p2")
  \/ \E p \in DOMAIN proc : Return(p)

ReplaySpec == ReplayInit /\ [][ReplayNext]_vars

-----
(* The claims *)

\* the invocation is between the statement that sets isGenerating and the end of
\* the session (generating-prompt, preview, generating-image, saving, embedding)
InPipeline(r) ==
  r.pc \in {"gp_prompt", "gp_prompt_sleep", "gp_preview", "gp_image", "gp_image_sleep",
            "gp_save", "gp_embed", "rg_image", "rg_image_sleep", "rg_save", "rg_embed"}

\* a typed error whose retryable flag is set
TypedRetryable(e) == e.typed /\ e.retryable

\* the step starts command c in invocation p
Starts(p, c) == proc[p].pc = "idle" /\ proc'[p].pc # "idle" /\ proc'[p].cmd = c

\* C1: never two invocations in a pipeline stage at the same time.
C1_SingleFlight ==
  \A p, q \in DOMAIN proc :
    p # q => ~(InPipeline(proc[p]) /\ InPipeline(proc[q]))

\* C2: an invocation of generatePoster or regenerateLastPoster that starts while
\* isGenerating is set returns at once (it is not queued), has called no provider
\* client and no storage operation, and leaves isGenerating, lastPrompt,
\* lastNoteFile (and the notes) as they were.
C2_RejectedWhileInProgress ==
  [][\A p \in DOMAIN proc :
       (isGenerating /\ (Starts(p, "generatePoster") \/ Starts(p, "regenerateLastPoster")))
       => /\ proc'[p].pc = "done"
          /\ proc'[p].result \in {"rejected", "noPrompt", "noNote", "noteGone"}
          /\ Starts(p, "generatePoster") => proc'[p].result = "rejected"
          /\ proc'[p].called = {}
          /\ isGenerating' = isGenerating
          /\ lastPrompt' = lastPrompt
          /\ lastNoteFile' = lastNoteFile
          /\ notes' = notes]_vars

\* C2 witness: an invocation was rejected by the in-progress guard while the flag is set.
C2_Witness ==
  \E p \in DOMAIN proc :
    /\ proc[p].pc = "done" /\ proc[p].result = "rejected"
    /\ isGenerating
    /\ \E q \in DOMAIN proc : InPipeline(proc[q])

\* C3: when a session that set isGenerating ends (success, failure, cancel at the
\* preview), isGenerating is false in the next state; and, every await settling,
\* isGenerating set leads to isGenerating cleared.
C3_FlagReleased ==
  /\ [][\A p \in DOMAIN proc :
          (InPipeline(proc[p]) /\ proc'[p].pc = "done") => isGenerating' = FALSE]_vars
  /\ (isGenerating ~> ~isGenerating)

\* C3 witness: a session that had set the flag ended in failure and the flag is clear.
C3_Witness ==
  \E p \in DOMAIN proc :
    /\ proc[p].pc = "done" /\ proc[p].result = "error"
    /\ proc[p].cmd \in {"generatePoster", "regenerateLastPoster"}
    /\ ~isGenerating

\* C4: when executeWithRetry gives up on a retryable error (every attempt raised a
\* retryable error), the operation was invoked exactly autoRetryCount + 1 times and
\* the error propagated is the one the last attempt raised; no run invokes the
\* operation more often than that.
C4_RetryExhausted ==
  \A p \in DOMAIN proc :
    /\ proc[p].opCalls <= settings.autoRetryCount + 1
    /\ (proc[p].pc = "done" /\ proc[p].result = "error" /\ TypedRetryable(proc[p].raised))
       => /\ proc[p].opCalls = settings.autoRetryCount + 1
          /\ proc[p].thrown = proc[p].raised

\* C4 witness: a run gave up after at least two attempts, the last error being retryable.
C4_Witness ==
  \E p \in DOMAIN proc :
    /\ proc[p].pc = "done" /\ proc[p].result = "error"
    /\ TypedRetryable(proc[p].raised)
    /\ settings.autoRetryCount >= 1
    /\ proc[p].opCalls >= 2

\* the backoff executeWithRetry has awaited before attempt number k (from 0)
RECURSIVE BackoffBefore(_)
BackoffBefore(k) == IF k = 0 THEN 0 ELSE BackoffBefore(k - 1) + (2 ^ (k - 1)) * 1000

\* C5: once an attempt raised an error that is not typed-and-retryable, the run of
\* executeWithRetry is over: the error is propagated (a thrown value that is no
\* Error inside a new Error), with no further attempt and no backoff after it; on
\* the first attempt that means exactly one invocation and no wait.
C5_NonRetryable ==
  \A p \in DOMAIN proc :
    (proc[p].raised # NoError /\ ~TypedRetryable(proc[p].raised))
    => /\ proc[p].pc = "done" /\ proc[p].result = "error"
       /\ IF proc[p].raised.isError
          THEN proc[p].thrown = proc[p].raised
          ELSE proc[p].thrown.wrapped
       /\ proc[p].opCalls = proc[p].attempt + 1
       /\ proc[p].waited = BackoffBefore(proc[p].attempt)
       /\ proc[p].attempt = 0 => (proc[p].opCalls = 1 /\ proc[p].waited = 0)

\* C5 witness: with retries configured, the first attempt raised INVALID_API_KEY.
C5_Witness ==
  \E p \in DOMAIN proc :
    /\ proc[p].pc = "done"
    /\ proc[p].raised.typed /\ proc[p].raised.type = "INVALID_API_KEY"
    /\ proc[p].attempt = 0
    /\ settings.autoRetryCount >= 1

\* the cached note reference does not resolve to an existing file
NoteGone == IF lastNoteFile = NULL THEN FALSE ELSE ~notes[lastNoteFile].exists

\* C6: regenerateLastPoster started with no cached prompt, no cached note, or a
\* cached note that no longer exists returns at once without a call to the image
\* client, the prompt client or the storage writer and without setting isGenerating.
C6_RegenerateFailsFast ==
  [][\A p \in DOMAIN proc :
       (/\ Starts(p, "regenerateLastPoster")
        /\ (lastPrompt = EmptyPrompt \/ lastNoteFile = NULL \/ NoteGone))
       => /\ proc'[p].pc = "done"
          /\ proc'[p].result \in {"noPrompt", "noNote", "noteGone"}
          /\ proc'[p].called = {}
          /\ isGenerating' = isGenerating
          /\ notes' = notes]_vars

\* C6 witness: a regeneration was refused because the cached note was deleted.
C6_Witness ==
  \E p \in DOMAIN proc :
    /\ proc[p].pc = "done" /\ proc[p].cmd = "regenerateLastPoster"
    /\ proc[p].result = "noteGone"

\* C7: after the user cancelled the progress surface during a provider call, the
\* session calls neither saveImage nor embedImageInNote and the note stays as it was.
C7_CancelDiscardsResult ==
  \A p \in DOMAIN proc :
    proc[p].afterCancel \cap {"saveImage", "embedImageInNote", "noteModified"} = {}

\* C8: a cancelled progress modal keeps its percentage and its step markers,
\* whatever updates are issued to it.
C8_NoUpdateAfterCancel ==
  [][\A p \in DOMAIN proc :
       (proc[p].progressModal.isCancelled /\ proc'[p].progressModal.isCancelled)
       => /\ proc'[p].progressModal.progress = proc[p].progressModal.progress
          /\ proc'[p].progressModal.marks = proc[p].progressModal.marks]_vars

\* C8 witness: an update was issued to a cancelled modal, which does not show it.
C8_Witness ==
  \E p \in DOMAIN proc :
    /\ proc[p].progressModal.isCancelled
    /\ Len(proc[p].issued) > 0
    /\ proc[p].issued[Len(proc[p].issued)].progress # proc[p].progressModal.progress

Milestones(steps, percents) == [i \in 1..Len(steps) |-> State(steps[i], percents[i])]

\* what generatePoster issues in its last pass
FreshMilestones ==
  Milestones(<<"generating-prompt", "generating-image", "saving", "embedding", "complete">>,
             <<20, 50, 80, 95, 100>>)

\* C9: a successful session with the progress surface issues 20, 50, 80, 95, 100
\* (generatePoster, last pass) or 40, 80, 95, 100 (regenerateLastPoster), and the
\* last state issued is {complete, 100}.
C9_Milestones ==
  \A p \in DOMAIN proc :
    (proc[p].pc = "done" /\ proc[p].result = "success" /\ proc[p].progressModal.exists)
    => /\ proc[p].cmd = "generatePoster" => proc[p].issued = FreshMilestones
       /\ proc[p].cmd = "regenerateLastPoster"
          => proc[p].issued =
               Milestones(<<"generating-image", "saving", "embedding", "complete">>,
                          <<40, 80, 95, 100>>)
       /\ proc[p].issued[Len(proc[p].issued)] = State("complete", 100)

\* C10: no step of generatePromptOnly calls the image client or the storage writer
\* or changes a note (or the flag, or the cached note); the step that ends it in
\* success caches the prompt the client returned as lastPrompt, and no other step
\* of it changes lastPrompt.
C10_PromptOnly ==
  [][\A p \in DOMAIN proc :
       (proc'[p].cmd = "generatePromptOnly" /\ proc'[p] # proc[p])
       => /\ proc'[p].called \subseteq {"generatePrompt"}
          /\ notes' = notes
          /\ isGenerating' = isGenerating
          /\ lastNoteFile' = lastNoteFile
          /\ IF proc'[p].pc = "done" /\ proc'[p].result = "success"
             THEN lastPrompt' = proc[p].finalPrompt.base /\ lastPrompt' \in Prompts
             ELSE lastPrompt' = lastPrompt]_vars

\* C10 witness: generatePromptOnly ended in success and a prompt is cached.
C10_Witness ==
  \E p \in DOMAIN proc :
    /\ proc[p].pc = "done" /\ proc[p].cmd = "generatePromptOnly"
    /\ proc[p].result = "success"
    /\ lastPrompt \in Prompts

\* the step issues the first image-client call of generatePoster's image step
ImageCallBegins(p) ==
  proc'[p].pc = "gp_image" /\ proc[p].pc \notin {"gp_image", "gp_image_sleep"}

AfterPrompt == {"generateImage", "saveImage", "embedImageInNote"}

\* C11: with show-preview enabled, generatePoster calls the image client only in
\* the step in which the preview returns a decision with confirmed and without
\* regenerate, and sends the prompt that decision carries; a decision without
\* confirmed ends the session, which has called neither the image client nor
\* saveImage nor embedImageInNote; with show-preview disabled the preview is
\* never opened.
C11_PreviewGate ==
  [][\A p \in DOMAIN proc :
       /\ (settings.showPreviewBeforeGeneration /\ ImageCallBegins(p))
          => /\ proc[p].pc = "gp_preview"
             /\ proc'[p].previewResult.confirmed
             /\ ~proc'[p].previewResult.regenerate
             /\ proc'[p].sentPrompt = proc'[p].previewResult.prompt
       /\ (proc[p].pc = "gp_preview" /\ proc'[p].pc # "gp_preview"
           /\ ~proc'[p].previewResult.confirmed)
          => /\ proc'[p].pc = "done"
             /\ proc'[p].called \cap AfterPrompt = {}
             /\ notes' = notes /\ attachments' = attachments
       /\ ("generateImage" \in proc'[p].called /\ proc'[p].cmd = "generatePoster"
           /\ settings.showPreviewBeforeGeneration)
          => proc'[p].previewResult.confirmed
       /\ ~settings.showPreviewBeforeGeneration
          => /\ proc'[p].pc # "gp_preview"
             /\ proc'[p].previewResult = NoPreviewResult]_vars

\* C11 witness: the image client is called with the prompt the user edited at the preview.
C11_Witness ==
  \E p \in DOMAIN proc :
    /\ proc[p].pc = "gp_image"
    /\ settings.showPreviewBeforeGeneration
    /\ proc[p].previewResult.confirmed /\ ~proc[p].previewResult.regenerate
    /\ proc[p].sentPrompt.edited
    /\ proc[p].sentPrompt = proc[p].previewResult.prompt

\* C12: a regenerate decision at the preview starts one new run of the prompt step
\* (first attempt, nothing waited) on the note text read at the start of the
\* session, without a call to the image client; when that run succeeds its prompt
\* becomes lastPrompt and the prompt of the next preview, still with no image call
\* made; and, every await settling, a session in which the user asked for a
\* regeneration ends.
C12_RegenerateBackEdge ==
  /\ [][\A p \in DOMAIN proc :
          /\ (proc[p].pc = "gp_preview" /\ proc'[p].pc # "gp_preview"
              /\ proc'[p].previewResult.confirmed /\ proc'[p].previewResult.regenerate)
             => /\ proc'[p].pc = "gp_prompt"
                /\ proc'[p].attempt = 0 /\ proc'[p].opCalls = 1 /\ proc'[p].waited = 0
                /\ proc'[p].regens = proc[p].regens + 1
                /\ proc'[p].noteContent = proc[p].noteContent
                /\ proc'[p].noteFile = proc[p].noteFile
                /\ "generateImage" \notin proc'[p].called
                /\ lastPrompt' = lastPrompt
          /\ (proc[p].pc = "gp_prompt" /\ proc[p].regens > 0
              /\ proc'[p].pc \notin {"gp_prompt", "gp_prompt_sleep", "done"})
             => /\ proc'[p].pc = "gp_preview"
                /\ lastPrompt' \in Prompts
                /\ lastPrompt'.note = proc[p].noteFile
                /\ proc'[p].finalPrompt.base = lastPrompt'
                /\ "generateImage" \notin proc'[p].called]_vars
  /\ ((\E p \in DOMAIN proc : proc[p].regens > 0)
        ~> (\A p \in DOMAIN proc : proc[p].pc \in {"idle", "done"}))

\* C12 witness: after a regeneration the user confirmed, and the image client is
\* called with the regenerated prompt.
C12_Witness ==
  \E p \in DOMAIN proc :
    /\ proc[p].pc = "gp_image" /\ proc[p].regens > 0
    /\ proc[p].sentPrompt.base = lastPrompt

\* C13: the error handed to the progress surface or the notice has a kind of the
\* closed taxonomy; a typed error a provider client raised arrives with its kind,
\* message, retryable flag and details as raised (the retry controller propagates
\* the very error); any other thrown value arrives as GENERATION_FAILED, not retryable.
C13_ClosedTaxonomy ==
  \A p \in DOMAIN proc :
    proc[p].shown # NoGenError
    => /\ proc[p].shown.type \in ErrorKinds
       /\ proc[p].raised.typed
          => /\ proc[p].thrown = proc[p].raised
             /\ proc[p].shown.type = proc[p].raised.type
             /\ proc[p].shown.message = proc[p].raised.message
             /\ proc[p].shown.retryable = proc[p].raised.retryable
             /\ proc[p].shown.details = proc[p].raised.details
       /\ proc[p].thrown.typed
          => proc[p].shown =
               [type |-> proc[p].thrown.type, message |-> proc[p].thrown.message,
                retryable |-> proc[p].thrown.retryable, details |-> proc[p].thrown.details]
       /\ ~proc[p].thrown.typed
          => proc[p].shown.type = "GENERATION_FAILED" /\ ~proc[p].shown.retryable

\* C13 witness: a RATE_LIMIT error went through a retry and reached the surface
\* with its details.
C13_Witness ==
  \E p \in DOMAIN proc :
    /\ proc[p].pc = "done" /\ proc[p].result = "error"
    /\ proc[p].opCalls >= 2
    /\ proc[p].raised.typed
    /\ proc[p].shown.type = "RATE_LIMIT" /\ proc[p].shown.details = "429"

\* an image-client call of the invocation is awaited
ImageCallInFlight(r) == r.pc \in {"gp_image", "rg_image"}

\* C14: whenever the image client is called with style cartoon, by generatePoster
\* or by regenerateLastPoster, the panel count it receives is between 2 and 12.
C14_PanelCount ==
  \A p \in DOMAIN proc :
    (ImageCallInFlight(proc[p]) /\ proc[p].sentStyle = "cartoon")
    => (2 <= proc[p].sentPanels /\ proc[p].sentPanels <= 12)

\* C15: the prompt client is called only with a non-empty key and a note text that
\* is non-empty after trimming, the image client only with a non-empty Google key.
C15_CredentialGuard ==
  \A p \in DOMAIN proc :
    /\ proc[p].pc \in {"gp_prompt", "po_prompt"}
       => (proc[p].sentKey # "" /\ Trim(proc[p].noteContent) # "")
    /\ ImageCallInFlight(proc[p]) => proc[p].sentKey # ""

\* C16: when embedImageInNote fails after saveImage succeeded, the session ends in
\* failure with one more error notification, the single-flight flag is released, and
\* nothing is compensated: no call is issued, the attachment saved stays in the vault
\* and the notes are as they were; no step ever removes an attachment.
EmbedFails(p) ==
  /\ proc[p].pc \in {"gp_embed", "rg_embed"}
  /\ proc'[p].pc = "done"
  /\ proc'[p].result = "error"

C16_NoRollback ==
  [][/\ attachments' >= attachments
     /\ \A p \in DOMAIN proc :
          EmbedFails(p) =>
            /\ proc[p].saved /\ proc'[p].saved
            /\ attachments >= 1
            /\ Len(proc'[p].notified) = Len(proc[p].notified) + 1
            /\ proc'[p].notified[Len(proc'[p].notified)].kind = "error"
            /\ isGenerating' = FALSE
            /\ attachments' = attachments
            /\ notes' = notes
            /\ proc'[p].called = proc[p].called]_vars

C16_Witness ==
  \E p \in DOMAIN proc :
    /\ proc[p].pc = "done"
    /\ proc[p].result = "error"
    /\ proc[p].saved
    /\ "embedImageInNote" \in proc[p].called
    /\ attachments >= 1
    /\ ~isGenerating
    /\ \A n \in Notes : notes[n].embeds = 0

\* C17: every session that holds the single-flight flag and is not cancelled at the
\* preview ends with exactly one terminal notification: a success notification
\* carrying the path saveImage returned if and only if every step up to the embed
\* succeeded, otherwise an error notification carrying the structured error.
SessionPcs ==
  {"gp_prompt", "gp_prompt_sleep", "gp_preview", "gp_image", "gp_image_sleep",
   "gp_save", "gp_embed", "rg_image", "rg_image_sleep", "rg_save", "rg_embed"}

SessionEnds(p) ==
  /\ proc[p].pc \in SessionPcs
  /\ proc'[p].pc = "done"
  /\ proc'[p].result # "previewCancelled"

C17_TerminalNotification ==
  [][\A p \in DOMAIN proc :
       SessionEnds(p) =>
         LET all == proc[p].pc \in {"gp_embed", "rg_embed"} /\ notes' # notes
             n == proc'[p].notified
         IN  /\ Len(n) = 1
             /\ n[1].kind = (IF all THEN "success" ELSE "error")
             /\ all => (n[1].path = proc[p].imagePath /\ n[1].path # NoPath)
             /\ ~all => n[1].error = toGenerationError(proc'[p].thrown)]_vars

\* C18: within one session the steps run in the order prompt, (preview), image, save,
\* embed: the image client is first called in the step in which the prompt client
\* answered or the preview let the prompt through (fresh path), saveImage in the step
\* in which the image client answered, embedImageInNote in the step in which saveImage
\* returned; a session that fails issues no call in its failing step and none after
\* it; the only step backwards is the one from the preview to prompt generation on a
\* regenerate decision.
Rank(pc) ==
  CASE pc \in {"idle", "gp_read", "gp_options", "po_read"} -> 0
    [] pc \in {"gp_prompt", "gp_prompt_sleep", "po_prompt"} -> 1
    [] pc \in {"gp_preview", "po_clipboard"} -> 2
    [] pc \in {"gp_image", "gp_image_sleep", "rg_image", "rg_image_sleep"} -> 3
    [] pc \in {"gp_save", "rg_save"} -> 4
    [] pc \in {"gp_embed", "rg_embed"} -> 5
    [] OTHER -> 6

NewCalls(p) == proc'[p].called \ proc[p].called

C18_PipelineOrder ==
  [][\A p \in DOMAIN proc :
       /\ proc[p].pc = "done" => (proc'[p].pc \in {"done", "idle"} /\ NewCalls(p) = {})
       /\ (proc[p].pc # "done" /\ proc'[p].pc # "idle") =>
            /\ Rank(proc'[p].pc) < Rank(proc[p].pc) =>
                 /\ proc[p].pc = "gp_preview"
                 /\ proc'[p].pc = "gp_prompt"
                 /\ proc'[p].previewResult.regenerate
            /\ ("generatePrompt" \in NewCalls(p) /\ proc'[p].cmd = "generatePoster") =>
                 proc[p].pc \in {"gp_options", "gp_preview"}
            /\ ("generateImage" \in NewCalls(p) /\ proc'[p].cmd = "generatePoster") =>
                 /\ proc[p].pc \in {"gp_prompt", "gp_preview"}
                 /\ "generatePrompt" \in proc[p].called
                 /\ proc'[p].sentPrompt.base # EmptyPrompt
                 /\ proc'[p].pc = "gp_image"
            /\ "saveImage" \in NewCalls(p) =>
                 /\ proc[p].pc \in {"gp_image", "rg_image"}
                 /\ Rank(proc'[p].pc) = 4
            /\ "embedImageInNote" \in NewCalls(p) =>
                 /\ proc[p].pc \in {"gp_save", "rg_save"}
                 /\ proc'[p].saved
                 /\ Rank(proc'[p].pc) = 5
            /\ proc'[p].result = "error" =>
                 (proc'[p].pc = "done" /\ NewCalls(p) = {})]_vars

C18_Witness ==
  \E p \in DOMAIN proc :
    /\ proc[p].cmd = "generatePoster"
    /\ proc[p].pc = "done"
    /\ proc[p].result = "error"
    /\ proc[p].previewResult.confirmed
    /\ proc[p].called = {"generatePrompt", "generateImage", "saveImage"}

\* C19: in executeWithRetry, when attempt i (from 0) fails with a retryable error and
\* i < autoRetryCount, the controller waits exactly 2^i seconds before attempt i+1;
\* it waits at no other time, so that every attempt k starts after
\* 2^0 + ... + 2^(k-1) seconds of backoff and a run that is exhausted with
\* autoRetryCount = n has waited 2^0 + ... + 2^(n-1) seconds in total.
Sleeping(r) == r.pc \in {"gp_prompt_sleep", "gp_image_sleep", "rg_image_sleep"}

InRetry(r) == InFlight(r) \/ Sleeping(r)

C19_Backoff ==
  [][\A p \in DOMAIN proc :
       InRetry(proc[p]) =>
         /\ (~Sleeping(proc[p]) /\ Sleeping(proc'[p])) =>
              /\ TypedRetryable(proc'[p].raised)
              /\ proc[p].attempt < settings.autoRetryCount
              /\ proc'[p].attempt = proc[p].attempt
              /\ proc'[p].waited = proc[p].waited + (2 ^ proc[p].attempt) * 1000
         /\ (Sleeping(proc[p]) /\ InFlight(proc'[p])) =>
              /\ proc'[p].attempt = proc[p].attempt + 1
              /\ proc'[p].waited = proc[p].waited
              /\ proc'[p].waited = BackoffBefore(proc'[p].attempt)
         /\ (proc'[p].pc = "done" /\ proc'[p].result = "error") =>
              /\ proc'[p].waited = proc[p].waited
              /\ proc'[p].waited = BackoffBefore(proc'[p].attempt)
              /\ TypedRetryable(proc'[p].raised) =>
                   proc'[p].waited = BackoffBefore(settings.autoRetryCount)]_vars

C19_Witness ==
  \E p \in DOMAIN proc :
    /\ proc[p].pc = "done" /\ proc[p].result = "error"
    /\ TypedRetryable(proc[p].raised)
    /\ settings.autoRetryCount = 3
    /\ proc[p].attempt = 3
    /\ proc[p].waited = 7000

\* C20: after every successful prompt generation, in generatePoster (each pass of the
\* loop) and in generatePromptOnly (by the time the command returns), lastPrompt is
\* the prompt the prompt client just returned; lastPrompt changes in no other step,
\* so never on a failed prompt generation and never in regenerateLastPoster.
PosterPromptReturned(p) ==
  /\ proc[p].pc = "gp_prompt"
  /\ proc'[p].pc \in {"gp_preview", "gp_image"}

PromptOnlyReturns(p) ==
  /\ proc[p].pc = "po_clipboard"
  /\ proc'[p].pc = "done"

C20_CacheUpdate ==
  [][/\ \A p \in DOMAIN proc :
          /\ PosterPromptReturned(p) =>
               (lastPrompt' = proc'[p].finalPrompt.base /\ lastPrompt' # EmptyPrompt)
          /\ PromptOnlyReturns(p) =>
               (lastPrompt' = proc[p].finalPrompt.base /\ lastPrompt' # EmptyPrompt)
     /\ lastPrompt' # lastPrompt =>
          \E p \in DOMAIN proc : PosterPromptReturned(p) \/ PromptOnlyReturns(p)]_vars

\* C21: for every integer v typed into the custom panel-count field, the stored custom
\* count is v clamped to [2,12]: v itself when 2 <= v <= 12, 2 when v < 2, 12 when
\* v > 12; so the count held by the options modal after an edit is within [2,12].
ClampTo(v) == IF v < 2 THEN 2 ELSE IF v > 12 THEN 12 ELSE v

C21_OptionsClamp ==
  \A p \in DOMAIN proc :
    LET q == proc[p].quickOptions
    IN  /\ (q.typed # NoText /\ ~ParseInt(q.typed).nan)
           => q.selectedCustomCuts = ClampTo(ParseInt(q.typed).n)
        /\ q.typed # NoText => (2 <= q.selectedCustomCuts /\ q.selectedCustomCuts <= 12)

\* C22: the panel count getCartoonCutsNumber hands on is, for the selectors '4', '6'
\* and '8', the number the selector names, whatever the custom value, and for the
\* selector 'custom' the custom value as it is, without clamping: for the options
\* the modal returned in generatePoster and for the stored settings in
\* regenerateLastPoster.
SelectorValue == [c \in {"4", "6", "8"} |-> CASE c = "4" -> 4 [] c = "6" -> 6 [] c = "8" -> 8]

PanelsOf(cartoonCuts, customCuts) ==
  IF cartoonCuts = "custom" THEN customCuts ELSE SelectorValue[cartoonCuts]

C22_CartoonCutsNumber ==
  [][\A p \in DOMAIN proc :
       /\ (proc[p].pc = "gp_options" /\ proc'[p].pc = "gp_prompt") =>
            proc'[p].selectedCartoonCuts =
              PanelsOf(proc[p].quickOptions.selectedCartoonCuts,
                       proc[p].quickOptions.selectedCustomCuts)
       /\ (proc[p].pc \in {"idle", "rg_image_sleep"} /\ proc'[p].pc = "rg_image") =>
            proc'[p].sentPanels =
              PanelsOf(settings.cartoonCuts, settings.customCartoonCuts)]_vars

C22_Witness ==
  \E p \in DOMAIN proc :
    /\ proc[p].cmd = "generatePoster"
    /\ proc[p].pc = "gp_image"
    /\ proc[p].sentStyle = "cartoon"
    /\ settings.cartoonCuts = "6"
    /\ proc[p].sentPanels = 15

\* C23: whenever regenerateLastPoster has passed its entry checks, the prompt it
\* sends was generated from the note it works on (lastPrompt and lastNoteFile refer
\* to the same note), so the image is saved for and embedded into the note its
\* prompt was derived from.
Regenerating(r) == r.pc \in {"rg_image", "rg_image_sleep", "rg_save", "rg_embed"}

C23_CacheConsistency ==
  \A p \in DOMAIN proc :
    Regenerating(proc[p]) =>
      /\ proc[p].sentPrompt.base.note = proc[p].noteFile
      /\ proc[p].pc \in {"rg_save", "rg_embed"} =>
           proc[p].target = proc[p].sentPrompt.base.note

\* C24: within one regenerateLastPoster session the note validated at entry, the note
\* passed to saveImage and the note passed to embedImageInNote are the same note,
\* whatever other invocations suspend and resume around it.
C24_StableTarget ==
  \A p \in DOMAIN proc :
    (proc[p].cmd = "regenerateLastPoster" /\ proc[p].pc \in {"rg_save", "rg_embed"})
    => /\ proc[p].target = proc[p].noteFile
       /\ proc[p].pc = "rg_embed" => proc[p].imagePath = ImagePath(proc[p].noteFile)

\* C25: within one regenerateLastPoster session every attempt of the image step sends
\* the same prompt, the lastPrompt that passed the entry check, also when another
\* command completes while the session waits.
C25_StablePrompt ==
  [][\A p \in DOMAIN proc :
       /\ (proc[p].pc = "idle" /\ proc'[p].pc = "rg_image") =>
            proc'[p].sentPrompt.base = lastPrompt
       /\ (proc[p].pc = "rg_image_sleep" /\ proc'[p].pc = "rg_image") =>
            proc'[p].sentPrompt = proc[p].sentPrompt]_vars

\* C26: the prompt regenerateLastPoster sends to the image client equals the prompt
\* the most recent generatePoster session sent to the image client, custom prefix
\* and preview edit included.
PosterSent(r) ==
  /\ r.cmd = "generatePoster"
  /\ r.pc = "done"
  /\ "generateImage" \in r.called

RegenerateBegins(p) ==
  /\ proc[p].pc = "idle"
  /\ proc'[p].pc = "rg_image"

====
